---- MODULE Spec2Model ----
(***************************************************************************)
(* LoopBuilder: the per-segment trial loop of Builder.build (build.py) and *)
(* the two structural-file algorithms it calls, extract_segment_from_mmcif *)
(* and join_segments (convert.py).                                         *)
(*                                                                         *)
(* A structural file is a sequence of lines.  A line is either an ATOM row *)
(* or any other line (data_, loop_, _atom_site.*, a key-value item, a      *)
(* HETATM row, # ...).  Of an ATOM row the model keeps the fields the code *)
(* reads: label_asym_id (chain), label_seq_id (seq), the trailing          *)
(* pdbx_PDB_model_num (model) and a tag standing for the rest of the row   *)
(* (atom serial, coordinates).  Of every line it keeps whether the         *)
(* trailing token is an integer literal (num) and, if so, its value.       *)
(***************************************************************************)
EXTENDS Integers, Sequences, FiniteSets, TLC

\* ------------------------------------------------------------ bounds
NumSegments == 2
MaxN == 2
MaxTries == 2
MaxFilters == 2
MaxRows == 3
MaxSeq == 3
MaxTotalLines == 4
MaxModel == 2

\* ------------------------------------------------- program constants
\* max_tries = n * 10
DefaultTriesFactor == 10

\* the inputs the omitted-max_tries case (max_tries = n * 10) is drawn with
DefaultArgN == {0, 1}
Chains == {"A", "B"}

\* self.scorers: the configured scorers, by kind
Scorers == <<"MolProbityScorer", "MolProbityScorer">>

NumScorers == Len(Scorers)

\* ------------------------------------------------------------- lines
HdrLine ==
    [kind |-> "HDR", chain |-> "", seq |-> 0, tag |-> 0, num |-> FALSE, model |-> 0]

AtomLine(c, s, t, m) ==
    [kind |-> "ATOM", chain |-> c, seq |-> s, tag |-> t, num |-> TRUE, model |-> m]

\* line.startswith("ATOM")
StartsWithAtom(line) == line.kind = "ATOM"

\* int(line.split()[-1]): the value of the trailing token when it is an
\* integer literal, of whatever line; ValueError otherwise.
ParseModel(line) ==
    IF line.num THEN [ok |-> TRUE, val |-> line.model]
    ELSE [ok |-> FALSE, val |-> 0]

SetMin(S) == CHOOSE x \in S : \A y \in S : x <= y

SetMax(S) == CHOOSE x \in S : \A y \in S : x >= y

\* --------------------------------------- extract_segment_from_mmcif
\* gemmi.cif.read + block.find("_atom_site.", ...): the rows of the table
TableOf(content) == SelectSeq(content, LAMBDA l : l.kind = "ATOM")

\* everything of the document that is not a row of the table
HeaderOf(content) == SelectSeq(content, LAMBDA l : l.kind # "ATOM")

RowMatchesAnyChain(row, chain_id, residue_indices) == row.seq \in residue_indices

\* (row[0] == chain_id) and (int(row[1]) in residue_indices)
RowMatches(row, chain_id, residue_indices) ==
    (row.chain = chain_id) /\ (row.seq \in residue_indices)

\* keep_rows, as the set of the 0-based row_index values appended
KeepRows(table, chain_id, residue_indices) ==
    {i \in 0..(Len(table) - 1) : RowMatches(table[i + 1], chain_id, residue_indices)}

\* if start > 0: del table[:start]
DelHead(table, start) ==
    IF start > 0 THEN SubSeq(table, start + 1, Len(table)) ELSE table

\* if end < len(table) - 1: del table[end - start + 1:]
\* (len(table) is read after the head was deleted)
DelTail(table, start, end) ==
    IF end < Len(table) - 1 THEN SubSeq(table, 1, end - start + 1) ELSE table

\* The whole function: status "ok" and the document written to output_file,
\* or the ValueError min() raises on an empty keep_rows, before any write.
ExtractSegment(content, chain_id, residue_indices) ==
    LET table == TableOf(content)
        keep_rows == KeepRows(table, chain_id, residue_indices)
    IN  IF keep_rows = {}
        THEN [status |-> "ValueError", written |-> FALSE, doc |-> <<>>]
        ELSE LET start == SetMin(keep_rows)
                 end == SetMax(keep_rows)
             IN  [status |-> "ok", written |-> TRUE,
                  doc |-> HeaderOf(content) \o DelTail(DelHead(table, start), start, end)]

\* ----------------------------------------------------- join_segments
\* prev_model_count = model_count + prev_model_count
NextOffset(model_count, prev_model_count) == model_count + prev_model_count

JoinLineKeepsOthers(line, st) ==
    IF ~StartsWithAtom(line) THEN [st EXCEPT !.out = Append(@, line)]
    ELSE LET p == ParseModel(line)
         IN  IF ~p.ok THEN [st EXCEPT !.status = "ValueError"]
             ELSE [st EXCEPT !.bound = TRUE, !.model_count = p.val,
                             !.out = Append(@, [line EXCEPT !.model = p.val + st.prev])]

\* One line of a file after the first: an ATOM row is parsed and written
\* with its model number raised by prev_model_count; any other line is
\* skipped.  st.bound says whether model_count has been assigned yet.
JoinLine(line, st) ==
    IF ~StartsWithAtom(line) THEN st
    ELSE LET p == ParseModel(line)
         IN  IF ~p.ok THEN [st EXCEPT !.status = "ValueError"]
             ELSE [st EXCEPT !.bound = TRUE, !.model_count = p.val,
                             !.out = Append(@, [line EXCEPT !.model = p.val + st.prev])]

RECURSIVE JoinLines(_, _, _)
JoinLines(lines, i, st) ==
    IF i > Len(lines) \/ st.status # "ok" THEN st
    ELSE JoinLines(lines, i + 1, JoinLine(lines[i], st))

\* One file after the first, then the update of prev_model_count, which
\* reads model_count: unbound if no ATOM row was seen so far.
JoinFile(lines, st) ==
    LET s1 == JoinLines(lines, 1, st)
    IN  IF s1.status # "ok" THEN s1
        ELSE IF ~s1.bound THEN [s1 EXCEPT !.status = "UnboundLocalError"]
        ELSE [s1 EXCEPT !.prev = NextOffset(s1.model_count, s1.prev)]

RECURSIVE JoinRest(_, _, _)
JoinRest(files, j, st) ==
    IF j > Len(files) \/ st.status # "ok" THEN st
    ELSE JoinRest(files, j + 1, JoinFile(files[j], st))

\* The whole function.  out is what the output file holds when the call
\* returns or raises (the file is opened for writing first, so it exists
\* and holds what was written so far).
JoinSegments(files) ==
    LET first == files[1]
        st0 == [status |-> "ok", out |-> first, prev |-> 0,
                bound |-> FALSE, model_count |-> 0]
    IN  IF Len(first) = 0 THEN [st0 EXCEPT !.status = "UnboundLocalError"]
        ELSE LET p == ParseModel(first[Len(first)])
             IN  IF ~p.ok THEN [st0 EXCEPT !.status = "ValueError"]
                 ELSE JoinRest(files, 2, [st0 EXCEPT !.prev = p.val])

\* ------------------------------------------------------ Builder.build
VARIABLES
    n,              \* build's argument n
    tries_arg,      \* build's argument max_tries: [none |-> TRUE] when omitted
    located,        \* how many segments find_segments finds in the structure
    num_filters,    \* len(self.filters)
    exit_status,    \* per configured scorer, the exit status of its quality tool
    segments,       \* self.segments, as the list of the segments' identifiers
    models,         \* segment.models, per segment identifier
    fs,             \* the files on disk: file name -> content
    pc,             \* where build is
    result,         \* how build ended: "" (it has not), "None" or "segments"
                    \* (what it returned), or the error that left it
                    \* ("GeneratorError", "FilterError")
    seg,            \* position of the for loop in self.segments
    max_tries,      \* the local max_tries, after the default was applied
    n_success, n_tries,
    segment_model,  \* the trial's SegmentModel
    scorer_i, filter_i,    \* positions of the two evaluator loops
    verdicts,       \* what the filters called on this trial answered, in call order
    invoked,        \* the filters called on this trial, in call order
    scored,         \* the scorers called on this trial, in call order, each
                    \* with the structure file it was called on
    n_success0,     \* n_success and len(segment.models) when the trial began
    status,         \* per segment: "", "success" or "exhausted" (the loop's exit log)
    join_calls,     \* per segment, the input lists join_segments was called with
    jfiles, jres, jpc,                  \* join_segments alone: input, result
    xdoc, xchain, xres, xout, xpc,      \* extract_segment_from_mmcif alone
    xagain,         \* the same extraction applied to the document it wrote
    ekind, eidentifier, ekwargs,    \* an evaluator's class and what it is built with
    evaluator, epc,                 \* the evaluator __init__ has set up
    wfs,            \* two builders on one working directory: file name -> the
                    \* builder that wrote the file
    ipc, itries,    \* per builder: where its build is, its n_tries
    foreign         \* the accesses made so far to a file the other builder wrote

vars == <<n, tries_arg, located, num_filters, exit_status, segments, models, fs, pc,
          result, seg, max_tries, n_success, n_tries, segment_model, scorer_i,
          filter_i, verdicts, invoked, scored, n_success0, status, join_calls,
          jfiles, jres, jpc, xdoc, xchain, xres, xout, xpc, xagain,
          ekind, eidentifier, ekwargs, evaluator, epc,
          wfs, ipc, itries, foreign>>

buildVars == <<n, tries_arg, located, num_filters, exit_status, segments, models, fs,
               pc, result, seg, max_tries, n_success, n_tries, segment_model,
               scorer_i, filter_i, verdicts, invoked, scored, n_success0, status,
               join_calls>>

joinVars == <<jfiles, jres, jpc>>

extractVars == <<xdoc, xchain, xres, xout, xpc, xagain>>

evalVars == <<ekind, eidentifier, ekwargs, evaluator, epc>>

sharedVars == <<wfs, ipc, itries, foreign>>

SegmentIds == 1..NumSegments

\* The structure every candidate is a completion of: one header line and one
\* ATOM row per residue 1..StructureLen of chain A.
StructureLen == 2 * NumSegments + 2

\* Segment i of the structure: its first residue and its number of residues.
\* residue_start_seqid
SegmentStart(i) == 2 * i

\* len(segment) == len(segment.residue_names)
SegmentLen(i) == 1 + (i % 2)

SegmentChain(i) == "A"

\* ---- file names
NoFile == [dir |-> "", seg |-> 0, k |-> 0, suffix |-> ""]

\* working_directory / f"{stem}_{segment.identifier}_{trial_id}.cif"
TrialFile(s, t) == [dir |-> "work", seg |-> s, k |-> t, suffix |-> ".cif"]

\* structure_file.with_stem(f"{stem}_segment")
TrimmedFile(f) == [f EXCEPT !.suffix = "_segment.cif"]

\* output_directory / f"{stem}_{segment.identifier}_{n_success}.cif"
AcceptedFile(s, k) == [dir |-> "out", seg |-> s, k |-> k, suffix |-> ".cif"]

\* output_directory / f"{stem}_{segment.identifier}.cif"
JoinedFile(s) == [dir |-> "out", seg |-> s, k |-> 0, suffix |-> ".cif"]

\* output_directory / "segments.csv", "models.csv"
CatalogFile(name) == [dir |-> "out", seg |-> 0, k |-> 0, suffix |-> name]

Exists(files, f) == f \in DOMAIN files

WriteFile(files, f, content) ==
    [x \in (DOMAIN files) \cup {f} |-> IF x = f THEN content ELSE files[x]]

Unlink(files, F) == [x \in (DOMAIN files) \ F |-> files[x]]

\* Path.rename: the target is replaced, the source is gone
Rename(files, src, dst) == Unlink(WriteFile(files, dst, files[src]), {src})

\* scores={}: the mapping from score names to values
EmptyScores == [k \in {} |-> 0]

NoModel ==
    [identifier |-> 0, structure_file |-> NoFile, scores |-> EmptyScores, index |-> 0]

\* PDBxFile.writeFile of the completed structure of trial t: the tag of a row
\* stands for the coordinates, which differ from trial to trial.
Candidate(s, t) ==
    <<HdrLine>> \o [r \in 1..StructureLen |-> AtomLine(SegmentChain(s), r, t, 1)]

\* if n_success >= n
ReachedTarget(succ, target) == succ >= target

ReachedMaxTriesStrict(tries, limit) == tries > limit

\* if n_tries >= max_tries
ReachedMaxTries(tries, limit) == tries >= limit

LoopStatusExhaustionFirst(succ, tries, target, limit) ==
    IF ReachedMaxTries(tries, limit) THEN "exhausted"
    ELSE IF ReachedTarget(succ, target) THEN "success"
    ELSE "continue"

\* The head of the while loop: the success check comes first.
LoopStatus(succ, tries, target, limit) ==
    IF ReachedTarget(succ, target) THEN "success"
    ELSE IF ReachedMaxTries(tries, limit) THEN "exhausted"
    ELSE "continue"

Segment == segments[seg]

TriesArgs ==
    {[none |-> TRUE, val |-> 0]} \cup {[none |-> FALSE, val |-> v] : v \in 0..MaxTries}

\* The state of a builder after __init__, before build is called, for one
\* choice of build's arguments and of the builder's configuration.
BuildIdle ==
    /\ segments = <<>>
    /\ models = [s \in SegmentIds |-> <<>>]
    /\ fs = <<>>
    /\ pc = "start" /\ result = ""
    /\ seg = 0 /\ max_tries = 0 /\ n_success = 0 /\ n_tries = 0
    /\ segment_model = NoModel
    /\ scorer_i = 0 /\ filter_i = 0
    /\ verdicts = <<>> /\ invoked = <<>> /\ scored = <<>> /\ n_success0 = 0
    /\ status = [s \in SegmentIds |-> ""]
    /\ join_calls = [s \in SegmentIds |-> <<>>]

BuildInputs ==
    /\ n \in 0..MaxN
    /\ tries_arg \in TriesArgs
    /\ tries_arg.none => n \in DefaultArgN
    /\ located \in 0..NumSegments
    /\ num_filters \in 0..MaxFilters
    /\ exit_status \in [1..NumScorers -> {0, 1}]

JoinIdle == jfiles = <<>> /\ jres = [status |-> "", out |-> <<>>] /\ jpc = "off"

ExtractIdle ==
    /\ xdoc = <<>> /\ xchain = "" /\ xres = {}
    /\ xout = [status |-> "", written |-> FALSE, doc |-> <<>>] /\ xpc = "off"
    /\ xagain = [status |-> "", written |-> FALSE, doc |-> <<>>]

\* No evaluator is being built
EvalIdle ==
    /\ ekind = "" /\ eidentifier = "" /\ ekwargs = <<>>
    /\ evaluator = [identifier |-> "", parameters |-> <<>>] /\ epc = "off"

\* The two builders of the shared working directory
Builders == {1, 2}

\* No two builders are at work on one working directory
SharedIdle ==
    /\ wfs = <<>> /\ foreign = {}
    /\ ipc = [b \in Builders |-> "off"] /\ itries = [b \in Builders |-> 0]

Init == BuildInputs /\ BuildIdle /\ JoinIdle /\ ExtractIdle /\ EvalIdle /\ SharedIdle

\* ---- build, lines 122-171

\* if n < 1: return
BuildNoModels ==
    /\ pc = "start"
    /\ n < 1
    /\ pc' = "done" /\ result' = "None"
    /\ UNCHANGED <<n, tries_arg, located, num_filters, exit_status, segments, models,
                   fs, seg, max_tries, n_success, n_tries, segment_model, scorer_i,
                   filter_i, verdicts, invoked, scored, n_success0, status,
                   join_calls>>
    /\ UNCHANGED <<joinVars, extractVars, evalVars, sharedVars>>

EffectiveMaxTriesAtLeastDefault(arg, target) ==
    IF arg.none \/ arg.val < 1 THEN target * DefaultTriesFactor ELSE arg.val

\* max_tries = n * 10 if max_tries is None
EffectiveMaxTries(arg, target) ==
    IF arg.none THEN target * DefaultTriesFactor ELSE arg.val

\* if max_tries < 1: return
BuildNoTries ==
    /\ pc = "start"
    /\ ~(n < 1)
    /\ EffectiveMaxTries(tries_arg, n) < 1
    /\ max_tries' = EffectiveMaxTries(tries_arg, n)
    /\ pc' = "done" /\ result' = "None"
    /\ UNCHANGED <<n, tries_arg, located, num_filters, exit_status, segments, models,
                   fs, seg, n_success, n_tries, segment_model, scorer_i,
                   filter_i, verdicts, invoked, scored, n_success0, status,
                   join_calls>>
    /\ UNCHANGED <<joinVars, extractVars, evalVars, sharedVars>>

\* self.segments after "if not self.segments: self.find_segments()"
SegmentsAfterFind(segs, found) ==
    IF segs = <<>> THEN [i \in 1..found |-> i] ELSE segs

\* if not self.segments: return self.segments
BuildNoSegments ==
    /\ pc = "start"
    /\ ~(n < 1)
    /\ ~(EffectiveMaxTries(tries_arg, n) < 1)
    /\ SegmentsAfterFind(segments, located) = <<>>
    /\ max_tries' = EffectiveMaxTries(tries_arg, n)
    /\ segments' = SegmentsAfterFind(segments, located)
    /\ pc' = "done" /\ result' = "segments"
    /\ UNCHANGED <<n, tries_arg, located, num_filters, exit_status, models,
                   fs, seg, n_success, n_tries, segment_model, scorer_i,
                   filter_i, verdicts, invoked, scored, n_success0, status,
                   join_calls>>
    /\ UNCHANGED <<joinVars, extractVars, evalVars, sharedVars>>

\* The first iteration of "for segment in it_segments": n_success = 0, n_tries = 0
BuildBegin ==
    /\ pc = "start"
    /\ ~(n < 1)
    /\ ~(EffectiveMaxTries(tries_arg, n) < 1)
    /\ SegmentsAfterFind(segments, located) # <<>>
    /\ max_tries' = EffectiveMaxTries(tries_arg, n)
    /\ segments' = SegmentsAfterFind(segments, located)
    /\ seg' = 1 /\ n_success' = 0 /\ n_tries' = 0
    /\ pc' = "loop"
    /\ UNCHANGED <<n, tries_arg, located, num_filters, exit_status, models,
                   fs, result, segment_model, scorer_i,
                   filter_i, verdicts, invoked, scored, n_success0, status,
                   join_calls>>
    /\ UNCHANGED <<joinVars, extractVars, evalVars, sharedVars>>

\* ---- the while loop, lines 178-188

\* if n_success >= n: logger.success(...); break
LoopSuccess ==
    /\ pc = "loop"
    /\ LoopStatus(n_success, n_tries, n, max_tries) = "success"
    /\ status' = [status EXCEPT ![Segment] = "success"]
    /\ pc' = "consolidate"
    /\ UNCHANGED <<n, tries_arg, located, num_filters, exit_status, segments, models,
                   fs, result, seg, max_tries, n_success, n_tries, segment_model,
                   scorer_i, filter_i, verdicts, invoked, scored, n_success0,
                   join_calls>>
    /\ UNCHANGED <<joinVars, extractVars, evalVars, sharedVars>>

\* if n_tries >= max_tries: logger.warning(...); break
LoopExhausted ==
    /\ pc = "loop"
    /\ LoopStatus(n_success, n_tries, n, max_tries) = "exhausted"
    /\ status' = [status EXCEPT ![Segment] = "exhausted"]
    /\ pc' = "consolidate"
    /\ UNCHANGED <<n, tries_arg, located, num_filters, exit_status, segments, models,
                   fs, result, seg, max_tries, n_success, n_tries, segment_model,
                   scorer_i, filter_i, verdicts, invoked, scored, n_success0,
                   join_calls>>
    /\ UNCHANGED <<joinVars, extractVars, evalVars, sharedVars>>

\* n_tries += 1; segment_model = self.build_segment(...): the generator writes
\* the candidate's full structure and returns a SegmentModel with no scores.
IncrementTriesLost(tries) == tries

\* n_tries += 1
IncrementTries(tries) == tries + 1

BuildSegment ==
    /\ pc = "loop"
    /\ LoopStatus(n_success, n_tries, n, max_tries) = "continue"
    /\ n_tries' = IncrementTries(n_tries)
    /\ fs' = WriteFile(fs, TrialFile(Segment, IncrementTries(n_tries)), Candidate(Segment, IncrementTries(n_tries)))
    /\ segment_model' = [identifier |-> Segment,
                         structure_file |-> TrialFile(Segment, IncrementTries(n_tries)),
                         scores |-> EmptyScores, index |-> 0]
    /\ verdicts' = <<>> /\ invoked' = <<>> /\ scored' = <<>>
    /\ n_success0' = n_success
    /\ pc' = "extract"
    /\ UNCHANGED <<n, tries_arg, located, num_filters, exit_status, segments, models,
                   result, seg, max_tries, n_success, scorer_i, filter_i, status,
                   join_calls>>
    /\ UNCHANGED <<joinVars, extractVars, evalVars, sharedVars>>

AfterExceptionNextTrial == "rejected"

\* Where build is after a call of the loop body raised: no try statement
\* encloses the loop body, the exception leaves build.
AfterException == "raised"

\* n_tries += 1; self.build_segment(...) raises: nothing in build catches it
BuildSegmentRaises ==
    /\ pc = "loop"
    /\ LoopStatus(n_success, n_tries, n, max_tries) = "continue"
    /\ n_tries' = IncrementTries(n_tries)
    /\ pc' = AfterException
    /\ result' = "GeneratorError"
    /\ UNCHANGED <<n, tries_arg, located, num_filters, exit_status, segments, models,
                   fs, seg, max_tries, n_success, segment_model, scorer_i,
                   filter_i, verdicts, invoked, scored, n_success0, status,
                   join_calls>>
    /\ UNCHANGED <<joinVars, extractVars, evalVars, sharedVars>>

\* residue_indices={segment_start, segment_end}
SegmentEndpoints(s) == {SegmentStart(s), SegmentStart(s) + SegmentLen(s) - 1}

\* lines 190-199: the candidate is trimmed into <stem>_segment.cif, which
\* becomes the trial's structure file
ExtractTrial ==
    /\ pc = "extract"
    /\ LET out == TrimmedFile(segment_model.structure_file)
           r == ExtractSegment(fs[segment_model.structure_file], SegmentChain(Segment),
                               SegmentEndpoints(Segment))
       IN  IF r.status = "ok"
           THEN /\ fs' = WriteFile(fs, out, r.doc)
                /\ segment_model' = [segment_model EXCEPT !.structure_file = out]
                /\ scorer_i' = 1
                /\ filter_i' = 1
                /\ pc' = IF NumScorers = 0 THEN "filter" ELSE "score"
           ELSE /\ pc' = "raised"
                /\ UNCHANGED <<fs, segment_model, scorer_i, filter_i>>
    /\ UNCHANGED <<n, tries_arg, located, num_filters, exit_status, segments, models,
                   result, seg, max_tries, n_success, n_tries, verdicts, invoked,
                   scored, n_success0, status, join_calls>>
    /\ UNCHANGED <<joinVars, extractVars, evalVars, sharedVars>>

\* ---- scoring, lines 201-202, and MolProbityScorer.score

\* scores[key] = value
SetScore(scores, key, value) ==
    [k \in (DOMAIN scores) \cup {key} |-> IF k = key THEN value ELSE scores[k]]

ScoreModelErrorOnly(model, run, returncode) ==
    IF returncode # 0
    THEN [model EXCEPT !.scores = SetScore(EmptyScores, "molprobity_error", run)]
    ELSE [model EXCEPT !.scores = SetScore(@, "molprobity_score", run)]

\* result.returncode != 0: scores["molprobity_error"] = result.stderr, and
\* return; otherwise scores.update(parse_output(...)).  The value of an
\* entry is kept as the position of the scorer whose run it comes from.
ScoreModel(model, run, returncode) ==
    IF returncode # 0
    THEN [model EXCEPT !.scores = SetScore(@, "molprobity_error", run)]
    ELSE [model EXCEPT !.scores = SetScore(@, "molprobity_score", run)]

NextScorerSkips(i) == i + 2

\* for scorer in self.scorers: the scorer after the i-th
NextScorer(i) == i + 1

\* for scorer in self.scorers: scorer(segment_model)
ScoreStep ==
    /\ pc = "score"
    /\ scorer_i <= NumScorers
    /\ segment_model' = ScoreModel(segment_model, scorer_i, exit_status[scorer_i])
    /\ scored' = Append(scored, [scorer |-> scorer_i, file |-> segment_model.structure_file])
    /\ scorer_i' = NextScorer(scorer_i)
    /\ pc' = IF NextScorer(scorer_i) > NumScorers THEN "filter" ELSE "score"
    /\ UNCHANGED <<n, tries_arg, located, num_filters, exit_status, segments, models,
                   fs, result, seg, max_tries, n_success, n_tries, filter_i,
                   verdicts, invoked, n_success0, status, join_calls>>
    /\ UNCHANGED <<joinVars, extractVars, evalVars, sharedVars>>

\* ---- filtering, lines 206-209

BreaksOnNever(passed) == FALSE

\* if not filter_(segment_model): ...; break
BreaksOn(passed) == ~passed

FilesAfterRejectUnlinked(files, f) == Unlink(files, {f})

\* The break leaves the loop body: no file operation follows it.
FilesAfterReject(files, f) == files

\* One call filter_(segment_model), with what it answered
FilterCall(passed) ==
    /\ pc = "filter"
    /\ filter_i <= num_filters
    /\ invoked' = Append(invoked, filter_i)
    /\ verdicts' = Append(verdicts, passed)
    /\ IF BreaksOn(passed)
       THEN /\ pc' = "rejected"
            /\ fs' = FilesAfterReject(fs, segment_model.structure_file)
            /\ UNCHANGED filter_i
       ELSE /\ filter_i' = filter_i + 1
            /\ UNCHANGED <<pc, fs>>
    /\ UNCHANGED <<n, tries_arg, located, num_filters, exit_status, segments, models,
                   result, seg, max_tries, n_success, n_tries, segment_model,
                   scorer_i, scored, n_success0, status, join_calls>>
    /\ UNCHANGED <<joinVars, extractVars, evalVars, sharedVars>>

\* for filter_ in self.filters: the filter answers either way
FilterStep == \E passed \in BOOLEAN : FilterCall(passed)

\* What build does with an exception of filter_(segment_model): the call
\* stands in the condition of an if, outside any try, so the exception
\* leaves the for loops and build.
AfterFilterError == "raised"

\* filter_(segment_model) raises: the filter was called and answered
\* nothing; nothing is deleted, counted or appended.
FilterRaises ==
    /\ pc = "filter"
    /\ filter_i <= num_filters
    /\ invoked' = Append(invoked, filter_i)
    /\ pc' = AfterFilterError
    /\ result' = "FilterError"
    /\ UNCHANGED <<n, tries_arg, located, num_filters, exit_status, segments, models,
                   fs, seg, max_tries, n_success, n_tries, segment_model,
                   scorer_i, filter_i, verdicts, scored, n_success0, status,
                   join_calls>>
    /\ UNCHANGED <<joinVars, extractVars, evalVars, sharedVars>>

\* ---- acceptance, the for loop's else clause, lines 210-219

AcceptIndexZeroBased(succ) == succ

\* n_success += 1
AcceptIndex(succ) == succ + 1

AcceptTrial ==
    /\ pc = "filter"
    /\ filter_i > num_filters
    /\ LET k == AcceptIndex(n_success)
           file == AcceptedFile(Segment, k)
           m == [segment_model EXCEPT !.structure_file = file, !.index = k]
       IN  /\ n_success' = n_success + 1
           /\ fs' = Rename(fs, segment_model.structure_file, file)
           /\ segment_model' = m
           /\ models' = [models EXCEPT ![Segment] = Append(@, m)]
    /\ pc' = "accepted"
    /\ UNCHANGED <<n, tries_arg, located, num_filters, exit_status, segments,
                   result, seg, max_tries, n_tries, scorer_i, filter_i,
                   verdicts, invoked, scored, n_success0, status, join_calls>>
    /\ UNCHANGED <<joinVars, extractVars, evalVars, sharedVars>>

\* Back to the head of "while True"; the trial's locals are dead from here on.
LoopBack ==
    /\ pc \in {"rejected", "accepted"}
    /\ pc' = "loop"
    /\ segment_model' = NoModel
    /\ scorer_i' = 0 /\ filter_i' = 0
    /\ verdicts' = <<>> /\ invoked' = <<>> /\ scored' = <<>> /\ n_success0' = 0
    /\ UNCHANGED <<n, tries_arg, located, num_filters, exit_status, segments, models,
                   fs, result, seg, max_tries, n_success, n_tries, status,
                   join_calls>>
    /\ UNCHANGED <<joinVars, extractVars, evalVars, sharedVars>>

\* ---- consolidation, lines 221-231

\* [m.structure_file for m in segment.models]
ModelFiles(ms) == [i \in 1..Len(ms) |-> ms[i].structure_file]

Range(f) == {f[i] : i \in DOMAIN f}

\* How many of the leading input files can be opened
RECURSIVE Readable(_, _, _)
Readable(files, inputs, k) ==
    IF k < Len(inputs) /\ Exists(files, inputs[k + 1])
    THEN Readable(files, inputs, k + 1) ELSE k

\* join_segments on the files on disk: the output is opened for writing (and
\* so truncated) before any input is read.
JoinOnDisk(files, inputs, output) ==
    LET fs1 == WriteFile(files, output, <<>>)
        k == Readable(fs1, inputs, 0)
        r == IF k = 0 THEN [status |-> "FileNotFoundError", out |-> <<>>]
             ELSE JoinSegments([i \in 1..k |-> fs1[inputs[i]]])
    IN  [status |-> IF r.status = "ok" /\ k < Len(inputs)
                    THEN "FileNotFoundError" ELSE r.status,
         files |-> WriteFile(fs1, output, r.out)]

InputsKept(files, inputs) == files

\* for file in model_structure_files: file.unlink(missing_ok=True)
UnlinkInputs(files, inputs) == Unlink(files, Range(inputs))

\* for model in segment.models: model.structure_file = joined_model_structure_file
Repoint(ms, file) == [i \in 1..Len(ms) |-> [ms[i] EXCEPT !.structure_file = file]]

\* if segment.models: join_segments(...), repoint, unlink
ConsolidateSegment ==
    /\ pc = "consolidate"
    /\ models[Segment] # <<>>
    /\ LET inputs == ModelFiles(models[Segment])
           output == JoinedFile(Segment)
           r == JoinOnDisk(fs, inputs, output)
       IN  /\ join_calls' = [join_calls EXCEPT ![Segment] = Append(@, inputs)]
           /\ IF r.status = "ok"
              THEN /\ models' = [models EXCEPT ![Segment] = Repoint(@, output)]
                   /\ fs' = UnlinkInputs(r.files, inputs)
                   /\ pc' = "next"
              ELSE /\ fs' = r.files
                   /\ pc' = "raised"
                   /\ UNCHANGED models
    /\ UNCHANGED <<n, tries_arg, located, num_filters, exit_status, segments,
                   result, seg, max_tries, n_success, n_tries, segment_model,
                   scorer_i, filter_i, verdicts, invoked, scored, n_success0,
                   status>>
    /\ UNCHANGED <<joinVars, extractVars, evalVars, sharedVars>>

\* segment.models is empty: nothing is joined
SkipConsolidate ==
    /\ pc = "consolidate"
    /\ models[Segment] = <<>>
    /\ pc' = "next"
    /\ UNCHANGED <<n, tries_arg, located, num_filters, exit_status, segments, models,
                   fs, result, seg, max_tries, n_success, n_tries, segment_model,
                   scorer_i, filter_i, verdicts, invoked, scored, n_success0,
                   status, join_calls>>
    /\ UNCHANGED <<joinVars, extractVars, evalVars, sharedVars>>

\* The next iteration of "for segment in it_segments"
NextSegment ==
    /\ pc = "next"
    /\ seg < Len(segments)
    /\ seg' = seg + 1 /\ n_success' = 0 /\ n_tries' = 0
    /\ pc' = "loop"
    /\ UNCHANGED <<n, tries_arg, located, num_filters, exit_status, segments, models,
                   fs, result, max_tries, segment_model, scorer_i, filter_i,
                   verdicts, invoked, scored, n_success0, status, join_calls>>
    /\ UNCHANGED <<joinVars, extractVars, evalVars, sharedVars>>

\* lines 234-255: the two catalogs are written and self.segments is returned
Finish ==
    /\ pc = "next"
    /\ seg = Len(segments)
    /\ fs' = WriteFile(WriteFile(fs, CatalogFile("segments.csv"), <<>>),
                       CatalogFile("models.csv"), <<>>)
    /\ result' = "segments"
    /\ pc' = "done"
    /\ UNCHANGED <<n, tries_arg, located, num_filters, exit_status, segments, models,
                   seg, max_tries, n_success, n_tries, segment_model, scorer_i,
                   filter_i, verdicts, invoked, scored, n_success0, status,
                   join_calls>>
    /\ UNCHANGED <<joinVars, extractVars, evalVars, sharedVars>>

Next ==
    \/ BuildNoModels \/ BuildNoTries \/ BuildNoSegments \/ BuildBegin
    \/ LoopSuccess \/ LoopExhausted \/ BuildSegment \/ BuildSegmentRaises
    \/ ExtractTrial \/ ScoreStep \/ FilterStep \/ FilterRaises \/ AcceptTrial
    \/ LoopBack
    \/ ConsolidateSegment \/ SkipConsolidate \/ NextSegment \/ Finish

Spec == Init /\ [][Next]_vars

\* ------------------------------------ build, every call of it returning
\* The steps of build when the generator, the extraction, the scorers and
\* the filters all return: no step in which one of them raises.  build is
\* sequential code, so a step that can be taken is taken.
NextReturns ==
    \/ BuildNoModels \/ BuildNoTries \/ BuildNoSegments \/ BuildBegin
    \/ LoopSuccess \/ LoopExhausted \/ BuildSegment
    \/ ExtractTrial \/ ScoreStep \/ FilterStep \/ AcceptTrial \/ LoopBack
    \/ ConsolidateSegment \/ SkipConsolidate \/ NextSegment \/ Finish

\* The steps of NextReturns but the consolidation
NextInLoop ==
    \/ BuildNoModels \/ BuildNoTries \/ BuildNoSegments \/ BuildBegin
    \/ LoopSuccess \/ LoopExhausted \/ BuildSegment
    \/ ExtractTrial \/ ScoreStep \/ FilterStep \/ AcceptTrial \/ LoopBack
    \/ SkipConsolidate \/ NextSegment \/ Finish

\* The consolidation by its effect on the position of build only: it is
\* enabled exactly when ConsolidateSegment is, and among the steps of
\* NextReturns the ones that satisfy it are those of ConsolidateSegment.
ConsolidateReturns ==
    /\ pc = "consolidate"
    /\ models[Segment] # <<>>
    /\ pc' \in {"next", "raised"}

\* At most one kind of step is possible at a position of build, so that
\* the two fairness conditions together say what WF_vars(NextReturns) says.
\* The builders whose build is followed to its end: at most one filter
\* (it accepts or rejects each trial), scorers whose tool succeeds.
InitReturns ==
    /\ Init
    /\ num_filters <= 1
    /\ exit_status = [i \in 1..NumScorers |-> 0]

SpecReturns ==
    /\ InitReturns /\ [][NextReturns]_vars
    /\ WF_vars(NextInLoop) /\ WF_pc(ConsolidateReturns)

\* ------------------------------- build called again on the same builder
\* After build has returned, build(n, max_tries) is called once more: the
\* arguments are new, the locals start afresh; the builder keeps its
\* segments with their models, its scorers and filters, and the files are
\* where the call before left them.
BuildAgain ==
    /\ pc = "done"
    /\ n' \in 0..MaxN
    /\ tries_arg' \in TriesArgs
    /\ tries_arg'.none => n' \in DefaultArgN
    /\ pc' = "start" /\ result' = ""
    /\ seg' = 0 /\ max_tries' = 0 /\ n_success' = 0 /\ n_tries' = 0
    /\ segment_model' = NoModel
    /\ scorer_i' = 0 /\ filter_i' = 0
    /\ verdicts' = <<>> /\ invoked' = <<>> /\ scored' = <<>> /\ n_success0' = 0
    /\ status' = [s \in SegmentIds |-> ""]
    /\ UNCHANGED <<located, num_filters, exit_status, segments, models, fs,
                   join_calls>>
    /\ UNCHANGED <<joinVars, extractVars, evalVars, sharedVars>>

NextRebuild == Next \/ BuildAgain

\* The builders called more than once: one or two segments to build (or
\* none found), at most one filter, scorers whose tool succeeds.
InitRebuild ==
    /\ Init
    /\ located <= 2
    /\ num_filters <= 1
    /\ exit_status = [i \in 1..NumScorers |-> 0]

SpecRebuild == InitRebuild /\ [][NextRebuild]_vars

\* ---------------------------------------------- build is not running
BuildOff ==
    /\ n = 0 /\ tries_arg = [none |-> TRUE, val |-> 0] /\ located = 0
    /\ num_filters = 0 /\ exit_status = [i \in 1..NumScorers |-> 0]
    /\ segments = <<>>
    /\ models = [s \in SegmentIds |-> <<>>]
    /\ fs = <<>>
    /\ pc = "off" /\ result = ""
    /\ seg = 0 /\ max_tries = 0 /\ n_success = 0 /\ n_tries = 0
    /\ segment_model = NoModel
    /\ scorer_i = 0 /\ filter_i = 0
    /\ verdicts = <<>> /\ invoked = <<>> /\ scored = <<>> /\ n_success0 = 0
    /\ status = [s \in SegmentIds |-> ""]
    /\ join_calls = [s \in SegmentIds |-> <<>>]

\* ------------------------------- extract_segment_from_mmcif, called alone
\* The documents: a header line and up to MaxRows rows of the atom table,
\* each of any chain and residue id; the tag of a row is its position.
ExtractDoc(k, cs) ==
    <<HdrLine>> \o [i \in 1..k |-> AtomLine(cs[i][1], cs[i][2], i, 1)]

\* residue_indices={first, last}
EndpointSets == {{a, b} : a \in 1..MaxSeq, b \in 1..MaxSeq}

InitExtract ==
    /\ BuildOff /\ JoinIdle /\ EvalIdle /\ SharedIdle
    /\ \E k \in 0..MaxRows : \E cs \in [1..k -> Chains \X (1..MaxSeq)] :
            xdoc = ExtractDoc(k, cs)
    /\ xchain \in Chains
    /\ xres \in EndpointSets
    /\ xout = [status |-> "", written |-> FALSE, doc |-> <<>>]
    /\ xagain = [status |-> "", written |-> FALSE, doc |-> <<>>]
    /\ xpc = "call"

ExtractCall ==
    /\ xpc = "call"
    /\ xout' = ExtractSegment(xdoc, xchain, xres)
    /\ xpc' = "done"
    /\ UNCHANGED <<xdoc, xchain, xres, xagain>>
    /\ UNCHANGED <<buildVars, joinVars, evalVars, sharedVars>>

\* extract_segment_from_mmcif called once more, with the same chain_id and
\* residue_indices, on the file the first call wrote
ExtractAgain ==
    /\ xpc = "done"
    /\ xout.status = "ok"
    /\ xagain' = ExtractSegment(xout.doc, xchain, xres)
    /\ xpc' = "again"
    /\ UNCHANGED <<xdoc, xchain, xres, xout>>
    /\ UNCHANGED <<buildVars, joinVars, evalVars, sharedVars>>

NextExtract == ExtractCall \/ ExtractAgain

SpecExtract == InitExtract /\ [][NextExtract]_vars

\* ------------------------------------------- join_segments, called alone
\* A line of an input file by its kind: 0 a line that is no ATOM row and
\* whose trailing token is no integer (loop_, #); m in 1..MaxModel an ATOM
\* row of model number m; MaxModel + 1 a line that is no ATOM row and whose
\* trailing token is the integer MaxModel (a key-value item, a HETATM row);
\* MaxModel + 2 an ATOM row whose trailing token is no integer (?, .);
\* MaxModel + 3 an ATOM row whose trailing token is 0; MaxModel + 4 an ATOM
\* row whose trailing token is -1.
\* The tag of a line is its position in the whole input.
NumLineKinds == MaxModel + 4

LineOfKind(kind, pos) ==
    IF kind = 0 THEN [HdrLine EXCEPT !.tag = pos]
    ELSE IF kind = MaxModel + 1
         THEN [HdrLine EXCEPT !.tag = pos, !.num = TRUE, !.model = MaxModel]
    ELSE IF kind = MaxModel + 2
         THEN [AtomLine("A", 1, pos, 0) EXCEPT !.num = FALSE]
    ELSE IF kind = MaxModel + 3 THEN AtomLine("A", 1, pos, 0)
    ELSE IF kind = MaxModel + 4 THEN AtomLine("A", 1, pos, -1)
    ELSE AtomLine("A", 1, pos, kind)

\* The j-th smallest element of a set of positions
NthOf(C, j) == CHOOSE c \in C : Cardinality({d \in C : d < c}) = j - 1

\* The lines 1..Len(flat) cut into files after the positions in cuts
CutIntoFiles(flat, cuts) ==
    LET ends == cuts \cup {Len(flat)}
    IN  [j \in 1..Cardinality(ends) |->
            SubSeq(flat, (IF j = 1 THEN 0 ELSE NthOf(ends, j - 1)) + 1, NthOf(ends, j))]

\* The input lists: one or more non-empty files of up to MaxTotalLines
\* lines in all.
JoinInput(len, kinds, cuts) ==
    CutIntoFiles([i \in 1..len |-> LineOfKind(kinds[i], i)], cuts)

InitJoin ==
    /\ BuildOff /\ ExtractIdle /\ EvalIdle /\ SharedIdle
    /\ \E len \in 1..MaxTotalLines :
          \E kinds \in [1..len -> 0..NumLineKinds], cuts \in SUBSET (1..(len - 1)) :
            jfiles = JoinInput(len, kinds, cuts)
    /\ jres = [status |-> "", out |-> <<>>]
    /\ jpc = "call"

JoinCall ==
    /\ jpc = "call"
    /\ LET r == JoinSegments(jfiles)
       IN  jres' = [status |-> r.status, out |-> r.out]
    /\ jpc' = "done"
    /\ UNCHANGED jfiles
    /\ UNCHANGED <<buildVars, extractVars, evalVars, sharedVars>>

NextJoin == JoinCall

SpecJoin == InitJoin /\ [][NextJoin]_vars

\* ------------------------------- SegmentModelEvaluatorBase.__init__
\* The evaluator classes of score.py and, derived from them, classes a user
\* of the package writes: FastMolProbity and DockerMolProbity extend
\* MolProbityScorer, ClashFilter and _ClashFilter extend Filter.
ClassNames ==
    {"SegmentModelEvaluatorBase", "Scorer", "Filter", "MolProbityScorer",
     "FastMolProbity", "DockerMolProbity", "ClashFilter", "_ClashFilter"}

\* class <name>(<base>): the evaluator class a class extends
BaseOf(cls) ==
    CASE cls = "SegmentModelEvaluatorBase" -> "object"
      [] cls \in {"Scorer", "Filter"} -> "SegmentModelEvaluatorBase"
      [] cls = "MolProbityScorer" -> "Scorer"
      [] cls \in {"FastMolProbity", "DockerMolProbity"} -> "MolProbityScorer"
      [] cls \in {"ClashFilter", "_ClashFilter"} -> "Filter"

\* The classes whose body assigns __default_parameters
Declaring ==
    {"SegmentModelEvaluatorBase", "MolProbityScorer", "DockerMolProbity",
     "ClashFilter", "_ClashFilter"}

\* What the body of a class of Declaring assigns to __default_parameters
DeclaredDefaults(cls) ==
    CASE cls = "SegmentModelEvaluatorBase" -> [k \in {"cleanup"} |-> "True"]
      [] cls = "MolProbityScorer" -> [k \in {"executable"} |-> "molprobity.molprobity"]
      [] cls = "DockerMolProbity" -> [k \in {"docker_image"} |-> "image"]
      [] cls \in {"ClashFilter", "_ClashFilter"} -> [k \in {"cleanup"} |-> "False"]

\* The classes that can be instantiated (Scorer and Filter are abstract)
EvaluatorKinds == ClassNames \ {"Scorer", "Filter"}

\* Python's private name mangling: __default_parameters in the body of a
\* class is stored as _<name>__default_parameters, <name> being the class
\* name without its leading underscores.  An attribute name is kept as its
\* <name> part.
Mangled(cls) == IF cls = "_ClashFilter" THEN "ClashFilter" ELSE cls

\* f"_{self.__class__.__name__}__default_parameters": the class name as it is
MangledByFormat(cls) == cls

\* getattr(obj, name, {}) on an instance of cls: the attribute of the first
\* class along the bases that stores it, {} if none does
RECURSIVE GetAttr(_, _)
GetAttr(cls, name) ==
    IF cls = "object" THEN <<>>
    ELSE IF cls \in Declaring /\ Mangled(cls) = name THEN DeclaredDefaults(cls)
    ELSE GetAttr(BaseOf(cls), name)

\* {**a, **b}
Merged(a, b) ==
    [k \in (DOMAIN a) \cup (DOMAIN b) |-> IF k \in DOMAIN b THEN b[k] ELSE a[k]]

\* __init__(self, identifier=None, **kwargs); identifier "" stands for None
EvaluatorInit(cls, identifier, kwargs) ==
    LET subclass_default_parameters == GetAttr(cls, MangledByFormat(cls))
    IN  [identifier |-> IF identifier = "" THEN cls ELSE identifier,
         parameters |-> Merged(Merged(DeclaredDefaults("SegmentModelEvaluatorBase"),
                                      subclass_default_parameters), kwargs)]

\* The keyword arguments a caller passes: any of the three keys, each with
\* one of two values
KwargKeys == {"cleanup", "executable", "docker_image"}

KwargValues == {"False", "mine"}

InitEval ==
    /\ BuildOff /\ JoinIdle /\ ExtractIdle /\ SharedIdle
    /\ ekind \in EvaluatorKinds
    /\ eidentifier \in {"", "my_evaluator"}
    /\ \E D \in SUBSET KwargKeys : ekwargs \in [D -> KwargValues]
    /\ evaluator = [identifier |-> "", parameters |-> <<>>]
    /\ epc = "call"

EvalCall ==
    /\ epc = "call"
    /\ evaluator' = EvaluatorInit(ekind, eidentifier, ekwargs)
    /\ epc' = "done"
    /\ UNCHANGED <<ekind, eidentifier, ekwargs>>
    /\ UNCHANGED <<buildVars, joinVars, extractVars, sharedVars>>

NextEval == EvalCall

SpecEval == InitEval /\ [][NextEval]_vars

\* ------------------------- two builders on one working directory
\* Builder b builds segment b (the two work on different segments and write
\* different output files); each has scorers=[MolProbityScorer()], no
\* filter, and n = max_tries = MaxTries.  Every file operation of a trial is
\* a step of its own, so that the steps of the two builders interleave.

\* output_file = model.structure_file.with_name("molprobity.out"), in the
\* directory of the structure file, which is the working directory
ToolOutputFile == [dir |-> "work", seg |-> 0, k |-> 0, suffix |-> "molprobity.out"]

\* Builder b writes file f
WrittenBy(files, f, b) == [x \in (DOMAIN files) \cup {f} |-> IF x = f THEN b ELSE files[x]]

\* The access op of builder b to file f, if the other builder wrote f
ForeignAccess(files, f, b, op) ==
    IF Exists(files, f) /\ files[f] # b THEN {[by |-> b, op |-> op, file |-> f]} ELSE {}

InitShared ==
    /\ BuildOff /\ JoinIdle /\ ExtractIdle /\ EvalIdle
    /\ wfs = <<>> /\ foreign = {}
    /\ ipc = [b \in Builders |-> "loop"] /\ itries = [b \in Builders |-> 0]

\* build.py 187-188 and 292-297: n_tries += 1, the generator writes the
\* candidate to <stem>_<segment>_<n_tries>.cif
SharedBuildSegment(b) ==
    /\ ipc[b] = "loop" /\ itries[b] < MaxTries
    /\ itries' = [itries EXCEPT ![b] = @ + 1]
    /\ foreign' = foreign \cup ForeignAccess(wfs, TrialFile(b, itries[b] + 1), b, "overwrite")
    /\ wfs' = WrittenBy(wfs, TrialFile(b, itries[b] + 1), b)
    /\ ipc' = [ipc EXCEPT ![b] = "extract"]
    /\ UNCHANGED <<buildVars, joinVars, extractVars, evalVars>>

\* build.py 190-199: the candidate is read and the trimmed file written
SharedExtract(b) ==
    /\ ipc[b] = "extract"
    /\ LET in == TrialFile(b, itries[b])
           out == TrimmedFile(in)
       IN  /\ foreign' = foreign \cup ForeignAccess(wfs, in, b, "read")
                                  \cup ForeignAccess(wfs, out, b, "overwrite")
           /\ wfs' = WrittenBy(wfs, out, b)
    /\ ipc' = [ipc EXCEPT ![b] = "tool"]
    /\ UNCHANGED itries
    /\ UNCHANGED <<buildVars, joinVars, extractVars, evalVars>>

\* score.py 101-108: the quality tool runs in the working directory on the
\* trimmed file and, when it succeeds, leaves molprobity.out there; on a
\* non-zero exit status the scorer returns
SharedRunTool(b, returncode) ==
    /\ ipc[b] = "tool"
    /\ foreign' = foreign
          \cup ForeignAccess(wfs, TrimmedFile(TrialFile(b, itries[b])), b, "read")
          \cup (IF returncode = 0
                THEN ForeignAccess(wfs, ToolOutputFile, b, "overwrite") ELSE {})
    /\ wfs' = IF returncode = 0 THEN WrittenBy(wfs, ToolOutputFile, b) ELSE wfs
    /\ ipc' = [ipc EXCEPT ![b] = IF returncode = 0 THEN "parse" ELSE "accept"]
    /\ UNCHANGED itries
    /\ UNCHANGED <<buildVars, joinVars, extractVars, evalVars>>

\* score.py 110-112 and 133: parse_output opens molprobity.out for reading
SharedParseOutput(b) ==
    /\ ipc[b] = "parse"
    /\ foreign' = foreign \cup ForeignAccess(wfs, ToolOutputFile, b, "read")
    /\ ipc' = [ipc EXCEPT ![b] = IF Exists(wfs, ToolOutputFile)
                                   THEN "cleanup" ELSE "raised"]
    /\ UNCHANGED <<wfs, itries>>
    /\ UNCHANGED <<buildVars, joinVars, extractVars, evalVars>>

\* score.py 114-115: cleanup is True by default, output_file.unlink(missing_ok=True)
SharedCleanup(b) ==
    /\ ipc[b] = "cleanup"
    /\ foreign' = foreign \cup ForeignAccess(wfs, ToolOutputFile, b, "delete")
    /\ wfs' = Unlink(wfs, {ToolOutputFile})
    /\ ipc' = [ipc EXCEPT ![b] = "accept"]
    /\ UNCHANGED itries
    /\ UNCHANGED <<buildVars, joinVars, extractVars, evalVars>>

\* build.py 210-215: no filter rejects, the trimmed file is renamed into the
\* output directory
SharedAccept(b) ==
    /\ ipc[b] = "accept"
    /\ LET in == TrimmedFile(TrialFile(b, itries[b]))
           out == AcceptedFile(b, itries[b])
       IN  /\ foreign' = foreign \cup ForeignAccess(wfs, in, b, "delete")
                                  \cup ForeignAccess(wfs, out, b, "overwrite")
           /\ wfs' = Unlink(WrittenBy(wfs, out, b), {in})
    /\ ipc' = [ipc EXCEPT ![b] = "loop"]
    /\ UNCHANGED itries
    /\ UNCHANGED <<buildVars, joinVars, extractVars, evalVars>>

\* build.py 179-185 and 221-231: the loop ends; the accepted files are
\* joined into the segment's file and unlinked
SharedConsolidate(b) ==
    /\ ipc[b] = "loop" /\ ~(itries[b] < MaxTries)
    /\ LET accepted == {AcceptedFile(b, k) : k \in 1..itries[b]} \cap DOMAIN wfs
       IN  /\ foreign' = foreign
                 \cup ForeignAccess(wfs, JoinedFile(b), b, "overwrite")
                 \cup UNION {ForeignAccess(wfs, f, b, "read") : f \in accepted}
                 \cup UNION {ForeignAccess(wfs, f, b, "delete") : f \in accepted}
           /\ wfs' = Unlink(WrittenBy(wfs, JoinedFile(b), b), accepted)
    /\ ipc' = [ipc EXCEPT ![b] = "done"]
    /\ UNCHANGED itries
    /\ UNCHANGED <<buildVars, joinVars, extractVars, evalVars>>

NextShared ==
    \E b \in Builders :
        \/ SharedBuildSegment(b)
        \/ SharedExtract(b)
        \/ \E returncode \in {0, 1} : SharedRunTool(b, returncode)
        \/ SharedParseOutput(b)
        \/ SharedCleanup(b)
        \/ SharedAccept(b)
        \/ SharedConsolidate(b)

SpecShared == InitShared /\ [][NextShared]_vars

\* =================================================== claims on build
InTrial == pc \in {"extract", "score", "filter", "rejected", "accepted"}

\* The segment's loop has ended and its consolidation step is behind it.
Processed(s) == (s < seg) \/ (s = seg /\ pc \in {"next", "done"})

\* What the file of trial t of segment s holds once it is trimmed
TrimmedContent(s, t) ==
    ExtractSegment(Candidate(s, t), SegmentChain(s), SegmentEndpoints(s)).doc

\* C1: while build(n, max_tries) runs with n >= 1 and max_tries >= 1
\* (max_tries being 10 * n when omitted), the accepted count of the segment
\* at work never exceeds n and its attempt count never exceeds max_tries; no
\* segment's model list ever holds more than n models.
C1_CountersBounded ==
    LET limit == IF tries_arg.none THEN 10 * n ELSE tries_arg.val
    IN  (pc # "start" /\ n >= 1 /\ limit >= 1) =>
            /\ n_success <= n
            /\ n_tries <= limit
            /\ \A s \in SegmentIds : Len(models[s]) <= n

\* C1 witness: in the second segment both counters have come back up to
\* their limits, n = 2 accepted in max_tries = 2 attempts.
C1_Witness ==
    /\ seg = 2 /\ pc = "accepted" /\ n = 2 /\ ~tries_arg.none
    /\ n_success = n /\ n_tries = tries_arg.val
    /\ Len(models[1]) = 2

\* C2: with max_tries >= n >= 1, a segment whose every trial was accepted
\* leaves its loop with attempts = accepted = n and the success status, not
\* the exhaustion one (also when max_tries = n); and no trial is ever under
\* way that began with accepted already at n.
C2_AllAcceptedStopsAtN ==
    /\ (pc \in {"consolidate", "next"} /\ n >= 1 /\ max_tries >= n
            /\ n_success = n_tries) =>
          (n_tries = n /\ n_success = n /\ status[Segment] = "success")
    /\ InTrial => n_success0 < n

\* C2 witness: n = max_tries = 2, both trials accepted, success status.
C2_Witness ==
    /\ pc = "consolidate" /\ n = 2 /\ max_tries = 2
    /\ n_success = 2 /\ n_tries = 2 /\ status[Segment] = "success"

\* C3: the filters are called in configured order, none is called after one
\* answered false; a rejected trial has called as many filters as the position
\* of the first one that answered false, and an accepted trial has called
\* every configured filter and each answered true.  (A filter that raised
\* was called and answered nothing.)
C3_FilterShortCircuit ==
    /\ Len(verdicts) = (IF result = "FilterError" THEN Len(invoked) - 1 ELSE Len(invoked))
    /\ invoked = [i \in 1..Len(invoked) |-> i]
    /\ \A i \in 1..(Len(verdicts) - 1) : verdicts[i]
    /\ pc = "rejected" =>
          /\ Len(invoked) >= 1
          /\ ~verdicts[Len(invoked)]
          /\ Len(invoked) = SetMin({i \in 1..Len(verdicts) : ~verdicts[i]})
    /\ pc = "accepted" =>
          /\ Len(invoked) = num_filters
          /\ \A i \in 1..num_filters : verdicts[i]

\* C3 witness: the second of two filters rejects, after two calls.
C3_Witness ==
    /\ pc = "rejected" /\ num_filters = 2
    /\ invoked = <<1, 2>> /\ verdicts = <<TRUE, FALSE>>

C5_IndexIsAcceptanceOrder ==
    /\ pc = "accepted" =>
          /\ n_success = n_success0 + 1
          /\ segment_model.index = n_success
          /\ segment_model.structure_file = AcceptedFile(Segment, n_success)
          /\ Exists(fs, AcceptedFile(Segment, n_success))
          /\ fs[AcceptedFile(Segment, n_success)] = TrimmedContent(Segment, n_tries)
          /\ ~Exists(fs, TrimmedFile(TrialFile(Segment, n_tries)))
          /\ Len(models[Segment]) = n_success
          /\ models[Segment][n_success] = segment_model
    /\ \A s \in SegmentIds : \A i \in 1..Len(models[s]) : models[s][i].index = i

\* C5 witness: the second model of the second segment is accepted on the
\* second trial.
C5_Witness ==
    /\ pc = "accepted" /\ seg = 2 /\ n_success = 2 /\ n_tries = 2
    /\ models[2][2].index = 2

\* C6: join_segments is called at most once per segment and never before
\* the segment's loop has ended, until when no consolidated file exists;
\* once the segment is done it was called if and only if the segment has an
\* accepted model, on the accepted files in acceptance order, every model
\* of the segment then references the consolidated file, which exists, and
\* no accepted per-trial file is left; a segment without accepted model has
\* no consolidated file and the run goes on.
C6_ConsolidatedOnceAfterLoop ==
    \A s \in SegmentIds :
        /\ Len(join_calls[s]) <= 1
        /\ ~Processed(s) =>
              /\ join_calls[s] = <<>>
              /\ ~Exists(fs, JoinedFile(s))
        /\ Processed(s) =>
              /\ (join_calls[s] # <<>>) <=> (Len(models[s]) >= 1)
              /\ Len(models[s]) >= 1 =>
                    /\ join_calls[s][1] = [i \in 1..Len(models[s]) |-> AcceptedFile(s, i)]
                    /\ \A i \in 1..Len(models[s]) :
                          /\ models[s][i].structure_file = JoinedFile(s)
                          /\ ~Exists(fs, AcceptedFile(s, i))
                    /\ Exists(fs, JoinedFile(s))
              /\ Len(models[s]) = 0 => ~Exists(fs, JoinedFile(s))
              /\ (s = seg /\ s < Len(segments)) => pc = "next"

\* C6 witness: the run is over, the first segment got no model and no
\* consolidated file, the second got two models and one.
C6_Witness ==
    /\ pc = "done" /\ Len(segments) = 2
    /\ models[1] = <<>> /\ ~Exists(fs, JoinedFile(1))
    /\ Len(models[2]) = 2 /\ Len(join_calls[2]) = 1
    /\ Exists(fs, JoinedFile(2))

\* C20 as stated: a filter that raises on a trial is treated as one that
\* rejects: the step in which a filter is called and answers nothing ends
\* in the state of a rejected trial, with nothing accepted (n_success and
\* the segment's models as before) and build still running (no error
\* leaves it), from where the loop goes on to the next attempt.  (build
\* calls the filter outside any try: the exception leaves build.)
C20_FilterErrorIsRejection ==
    [][(pc = "filter" /\ invoked' # invoked /\ verdicts' = verdicts) =>
          /\ pc' = "rejected"
          /\ result' = ""
          /\ n_success' = n_success
          /\ models' = models]_vars

\* C22 as stated: once the loop of a segment has ended and its consolidation
\* is done, no file made for the segment is left (no candidate file of a
\* trial, no trimmed file, no accepted per-trial file) but the consolidated
\* file, which is there if and only if a model was accepted.  (build never
\* deletes the candidate file build_segment wrote, nor the trimmed file of
\* a rejected trial.)
C22_IntermediatesDiscarded ==
    pc = "next" =>
        /\ \A f \in DOMAIN fs : f.seg = Segment => f = JoinedFile(Segment)
        /\ Exists(fs, JoinedFile(Segment)) <=> models[Segment] # <<>>

\* C23 as stated: over any sequence of build calls on one builder, no call
\* is left with an error (unless the generator or a filter raised one);
\* when a call has returned the segments, every segment's list holds at
\* most n models, of pairwise distinct indices, each of a file that exists;
\* and no consolidation was given its own output file, the consolidated
\* file of an earlier call, among its inputs.  (A later call appends to the
\* lists the earlier call filled, counts its indices from 1 again and
\* passes the consolidated file to join_segments as first input and as
\* output: the file is emptied on opening and join_segments raises.)
C23_RepeatedBuildIsSafe ==
    /\ pc = "raised" => result \in {"GeneratorError", "FilterError"}
    /\ (pc = "done" /\ result = "segments") =>
          \A s \in Range(segments) :
              /\ Len(models[s]) <= n
              /\ \A i, j \in 1..Len(models[s]) :
                    i # j => models[s][i].index # models[s][j].index
              /\ \A i \in 1..Len(models[s]) : Exists(fs, models[s][i].structure_file)
    /\ \A s \in SegmentIds : \A c \in 1..Len(join_calls[s]) :
          JoinedFile(s) \notin Range(join_calls[s][c])

\* What C24 says of the state of build: a segment whose loop has ended made
\* at least one attempt and at most max_tries, and its status is success
\* with accepted = n, or else exhaustion with accepted < n and attempts =
\* max_tries; the segments are taken in list order, the one at work being
\* the first whose loop has not ended; and build returns the segments only
\* after the loop of every one of them has ended.
LoopsEndInOrder ==
    /\ pc \in {"consolidate", "next"} =>
          /\ n_tries >= 1 /\ n_tries <= max_tries
          /\ status[Segment] \in {"success", "exhausted"}
          /\ status[Segment] = "success" <=> n_success = n
          /\ status[Segment] = "exhausted" => (n_success < n /\ n_tries = max_tries)
    /\ \A s \in SegmentIds :
          status[s] # "" <=>
              /\ s \in Range(segments)
              /\ s < seg \/ (s = seg /\ pc \in {"consolidate", "next", "done"})
    /\ (pc = "done" /\ result = "segments") =>
          \A s \in Range(segments) : status[s] \in {"success", "exhausted"}

\* build was called with n >= 1 and max_tries >= 1 (10 * n when omitted)
PositiveArguments ==
    n >= 1 /\ (IF tries_arg.none THEN 10 * n ELSE tries_arg.val) >= 1

\* C24: when every call of the generator, the extraction, the scorers and
\* the filters returns, build(n, max_tries) with n >= 1 and max_tries >= 1
\* (10 * n when omitted) returns; each segment's loop ends after 1 to
\* max_tries attempts, with the success status if accepted = n and with the
\* exhaustion status otherwise (then accepted < n and attempts =
\* max_tries); every segment found gets its turn, in list order.
C24_BuildTerminates ==
    /\ (pc = "start" /\ PositiveArguments) ~>
            (pc = "done" /\ result \in {"None", "segments"})
    /\ [](PositiveArguments => LoopsEndInOrder)

\* C24 witness: build(2, max_tries=2) has returned two segments, the first
\* with two models and the success status, the second with one model and
\* the exhaustion status.
C24_Witness ==
    /\ pc = "done" /\ result = "segments" /\ n = 2 /\ max_tries = 2
    /\ status = <<"success", "exhausted">>
    /\ Len(models[1]) = 2 /\ Len(models[2]) = 1

\* ========================================= claims on join_segments
AtomRows(f) == SelectSeq(f, LAMBDA l : l.kind = "ATOM")

\* The trailing token of a line is a positive integer
PositiveToken(line) == line.num /\ line.model >= 1

\* A file whose ATOM rows all carry a model number, and that has some
WellFormed(f) ==
    /\ Len(AtomRows(f)) >= 1
    /\ \A i \in 1..Len(AtomRows(f)) : PositiveToken(AtomRows(f)[i])

\* A file that holds one model: it has ATOM rows, all of one model number.
SingleModel(f) ==
    /\ WellFormed(f)
    /\ \A i \in 1..Len(AtomRows(f)) : AtomRows(f)[i].model = AtomRows(f)[1].model

ModelOf(f) == AtomRows(f)[1].model

\* The sum of the model numbers of the single-model files before file j
RECURSIVE OffsetBefore(_, _)
OffsetBefore(files, j) ==
    IF j = 1 THEN 0 ELSE OffsetBefore(files, j - 1) + ModelOf(files[j - 1])

\* The ATOM rows of files 1..j in order, each with its file's offset added
RECURSIVE Renumbered(_, _)
Renumbered(files, j) ==
    IF j = 0 THEN <<>>
    ELSE Renumbered(files, j - 1) \o
         [i \in 1..Len(AtomRows(files[j])) |->
            [AtomRows(files[j])[i] EXCEPT !.model = @ + OffsetBefore(files, j)]]

\* The ATOM rows of files i..j in order
RECURSIVE AtomRowsOf(_, _, _)
AtomRowsOf(files, i, j) ==
    IF j < i THEN <<>> ELSE AtomRowsOf(files, i, j - 1) \o AtomRows(files[j])

\* C7 as stated: joining k >= 1 single-model files succeeds, and the ATOM
\* rows of the output are the ATOM rows of the files, in file order and in
\* their order within each file, each with its original model number plus
\* the sum of the model numbers of the files before its own; so the output
\* carries exactly k distinct model numbers, strictly increasing in file
\* order.  (join_segments takes the first offset from the trailing token of
\* the first file's last line, whatever that line is.)
C7_SingleModelFilesRenumbered ==
    (jpc = "done" /\ \A j \in 1..Len(jfiles) : SingleModel(jfiles[j])) =>
        LET k == Len(jfiles)
            outModel(j) == ModelOf(jfiles[j]) + OffsetBefore(jfiles, j)
            rows == AtomRows(jres.out)
        IN  /\ jres.status = "ok"
            /\ rows = Renumbered(jfiles, k)
            /\ {rows[i].model : i \in 1..Len(rows)} = {outModel(j) : j \in 1..k}
            /\ Cardinality({rows[i].model : i \in 1..Len(rows)}) = k
            /\ \A j \in 1..(k - 1) : outModel(j) < outModel(j + 1)

MaxModelOf(f) == SetMax({AtomRows(f)[i].model : i \in 1..Len(AtomRows(f))})

\* The sum of the largest model numbers of the files before file j
RECURSIVE MaxOffsetBefore(_, _)
MaxOffsetBefore(files, j) ==
    IF j = 1 THEN 0 ELSE MaxOffsetBefore(files, j - 1) + MaxModelOf(files[j - 1])

\* The model numbers the output carries for the ATOM rows of file j: the
\* output's ATOM rows are matched to the input rows by tag.
OutModelsOf(files, out, j) ==
    {out[o].model : o \in {p \in 1..Len(out) :
        /\ out[p].kind = "ATOM"
        /\ \E i \in 1..Len(files[j]) : files[j][i].tag = out[p].tag}}

\* C18 as stated: joining files that each hold ATOM rows, of model numbers
\* varying within a file in any row order, succeeds; every ATOM row of file
\* j is written with its model number raised by the sum of the largest
\* model numbers of files 1..j-1; and every model number the output carries
\* for file j is greater than every one it carries for an earlier file.
\* (join_segments adds the model number of the last line of the first file
\* and of the last ATOM row of each later file, not the largest.)
C18_OffsetIsSumOfMaxima ==
    (jpc = "done" /\ \A j \in 1..Len(jfiles) : WellFormed(jfiles[j])) =>
        /\ jres.status = "ok"
        /\ \A j \in 1..Len(jfiles) : \A i \in 1..Len(jfiles[j]) :
              jfiles[j][i].kind = "ATOM" =>
                  \E o \in 1..Len(jres.out) :
                      /\ jres.out[o].tag = jfiles[j][i].tag
                      /\ jres.out[o].model =
                            jfiles[j][i].model + MaxOffsetBefore(jfiles, j)
        /\ \A j \in 2..Len(jfiles) : \A e \in 1..(j - 1) :
              \A a \in OutModelsOf(jfiles, jres.out, j) :
                  \A b \in OutModelsOf(jfiles, jres.out, e) : a > b

\* C19 as stated: when some ATOM row of some input file has a trailing
\* token that is no positive integer (no integer at all, zero or negative),
\* join_segments fails, and a row of that kind in a file after the first is
\* not written to the output.  (join_segments parses the token with int(),
\* which takes 0 and -1, and in the first file parses the last line only.)
C19_BadModelTokenIsFatal ==
    jpc = "done" =>
        \A j \in 1..Len(jfiles) : \A i \in 1..Len(jfiles[j]) :
            (jfiles[j][i].kind = "ATOM" /\ ~PositiveToken(jfiles[j][i])) =>
                /\ jres.status # "ok"
                /\ j >= 2 => \A o \in 1..Len(jres.out) :
                                jres.out[o].tag # jfiles[j][i].tag

\* ============================ claims on extract_segment_from_mmcif
\* The positions (1-based) of the rows of the table that match
Matching ==
    {i \in 1..Len(TableOf(xdoc)) :
        TableOf(xdoc)[i].chain = xchain /\ TableOf(xdoc)[i].seq \in xres}

\* C9: whenever some row matches the chain and one of the two endpoints,
\* the extraction succeeds and its output holds exactly the rows from the
\* first to the last matching row, in order, under the unchanged header.
C9_ExactSpan ==
    (xpc = "done" /\ Matching # {}) =>
        /\ xout.status = "ok"
        /\ TableOf(xout.doc) = SubSeq(TableOf(xdoc), SetMin(Matching), SetMax(Matching))
        /\ HeaderOf(xout.doc) = HeaderOf(xdoc)

\* C10: when no row matches the chain and one of the endpoints, the
\* extraction ends with an error and has written no document.
C10_NoMatchRaises ==
    (xpc = "done" /\ Matching = {}) =>
        /\ xout.status = "ValueError"
        /\ ~xout.written
        /\ xout.doc = <<>>

\* C10 witness: a table of three rows, one of the chain asked for and one
\* of a residue asked for, but none of both.
C10_Witness ==
    /\ xpc = "done" /\ Matching = {} /\ Len(TableOf(xdoc)) = 3
    /\ \E i \in 1..3 : TableOf(xdoc)[i].chain = xchain
    /\ \E i \in 1..3 : TableOf(xdoc)[i].seq \in xres
    /\ xout.status = "ValueError"

\* C11: whenever an extraction succeeded, the same extraction applied to the
\* document it wrote succeeds too and writes that same document again.
C11_ExtractIdempotent ==
    xpc = "again" =>
        /\ xagain.status = "ok"
        /\ xagain.doc = xout.doc

\* The data-model invariant on a document: the rows of one chain are
\* contiguous in the table and in ascending residue order.
DataModelInvariant(doc) ==
    LET t == TableOf(doc)
    IN  \A i \in 1..Len(t) : \A j \in i..Len(t) :
            t[i].chain = t[j].chain =>
                /\ t[i].seq <= t[j].seq
                /\ \A k \in i..j : t[k].chain = t[i].chain

\* The rows of chain chain_id whose residue id lies in the closed interval
\* between the two endpoints
RowsInInterval(doc, chain_id, endpoints) ==
    SelectSeq(TableOf(doc), LAMBDA row :
        /\ row.chain = chain_id
        /\ row.seq >= SetMin(endpoints) /\ row.seq <= SetMax(endpoints))

\* C21 as stated: on a document that satisfies the data-model invariant, an
\* extraction that succeeds has written exactly the rows of the chain whose
\* residue id lies in [first, last], and it succeeds only if the chain has
\* rows for both endpoints.  (extract_segment_from_mmcif keeps the rows from
\* the first to the last row that matches either endpoint: with rows for one
\* endpoint only it writes those rows and returns.)
C21_ExactInterval ==
    (xpc = "done" /\ DataModelInvariant(xdoc) /\ xout.status = "ok") =>
        /\ TableOf(xout.doc) = RowsInInterval(xdoc, xchain, xres)
        /\ \A r \in xres : \E i \in 1..Len(TableOf(xdoc)) :
              TableOf(xdoc)[i].chain = xchain /\ TableOf(xdoc)[i].seq = r

\* C12: build called with n < 1 or with max_tries < 1 returns None at once:
\* no error, no segment located, no trial (no call of the generator, of a
\* scorer or of a filter), no model in any list, no file written.
C12_NonPositiveIsNoOp ==
    LET limit == IF tries_arg.none THEN 10 * n ELSE tries_arg.val
    IN  (pc \notin {"start", "off"} /\ (n < 1 \/ limit < 1)) =>
            /\ pc = "done" /\ result = "None"
            /\ segments = <<>>
            /\ n_tries = 0 /\ n_success = 0 /\ segment_model = NoModel
            /\ scored = <<>> /\ invoked = <<>> /\ verdicts = <<>>
            /\ \A s \in SegmentIds : models[s] = <<>> /\ join_calls[s] = <<>>
            /\ fs = <<>>

\* C12 witness: build(2, max_tries=0) has returned None.
C12_Witness ==
    /\ pc = "done" /\ result = "None"
    /\ n = 2 /\ ~tries_arg.none /\ tries_arg.val = 0

\* C13: once build_segment has raised, build has been left with the error
\* and takes no further step (no trial of this or of a later segment, no
\* consolidation); the segment at work has no consolidated file, the later
\* segments have no model and no file, and the models accepted before are
\* still in their lists with their files: the segment's own accepted files,
\* the earlier segments' consolidated files.
C13_GeneratorErrorAborts ==
    /\ [](result = "GeneratorError" =>
            /\ pc = "raised"
            /\ join_calls[Segment] = <<>> /\ ~Exists(fs, JoinedFile(Segment))
            /\ Len(models[Segment]) = n_success
            /\ \A i \in 1..n_success :
                  /\ models[Segment][i].structure_file = AcceptedFile(Segment, i)
                  /\ Exists(fs, AcceptedFile(Segment, i))
            /\ \A s \in SegmentIds :
                  /\ s > seg => /\ models[s] = <<>> /\ join_calls[s] = <<>>
                                /\ \A f \in DOMAIN fs : f.seg # s
                  /\ (s < seg /\ Len(models[s]) >= 1) =>
                        /\ Exists(fs, JoinedFile(s))
                        /\ \A i \in 1..Len(models[s]) :
                              models[s][i].structure_file = JoinedFile(s))
    /\ [][result # "GeneratorError"]_vars

\* C13 witness: the generator raises on the second trial of the second
\* segment, after one model of it and two of the first were accepted.
C13_Witness ==
    /\ result = "GeneratorError" /\ seg = 2 /\ n_tries = 2 /\ n_success = 1
    /\ Len(models[1]) = 2 /\ Len(models[2]) = 1

\* C14: a step of a scorer whose quality tool exits with a non-zero status
\* raises nothing: the model's scores get the entry molprobity_error, every
\* other entry stays as it was, and build goes on with the next scorer or,
\* after the last one, with the filters.
C14_ToolFailureIsRecorded ==
    [][(pc = "score" /\ exit_status[scorer_i] # 0) =>
          /\ DOMAIN segment_model'.scores =
                (DOMAIN segment_model.scores) \cup {"molprobity_error"}
          /\ segment_model'.scores["molprobity_error"] = scorer_i
          /\ \A k \in (DOMAIN segment_model.scores) \ {"molprobity_error"} :
                segment_model'.scores[k] = segment_model.scores[k]
          /\ scorer_i' = scorer_i + 1
          /\ pc' = (IF scorer_i < NumScorers THEN "score" ELSE "filter")
          /\ result' = result]_vars

\* C14 witness: the first scorer's tool succeeded, the second's failed; the
\* model has both entries and the trial is at its filters.
C14_Witness ==
    /\ pc = "filter" /\ exit_status = <<0, 1>>
    /\ DOMAIN segment_model.scores = {"molprobity_score", "molprobity_error"}
    /\ segment_model.scores["molprobity_score"] = 1
    /\ segment_model.scores["molprobity_error"] = 2

RECURSIVE KindDefaults(_)
KindDefaults(cls) ==
    IF cls \in {"object", "SegmentModelEvaluatorBase"} THEN <<>>
    ELSE IF cls \in Declaring THEN DeclaredDefaults(cls)
    ELSE KindDefaults(BaseOf(cls))

\* C16: the parameters of a new evaluator are the shared defaults, overridden
\* by the defaults of its kind, overridden by the caller's keyword arguments;
\* its identifier is the caller's if one was given, the kind's name if not.
C16_LayeredParameters ==
    epc = "done" =>
        /\ evaluator.parameters =
              Merged(Merged(DeclaredDefaults("SegmentModelEvaluatorBase"),
                            KindDefaults(ekind)), ekwargs)
        /\ evaluator.identifier = (IF eidentifier = "" THEN ekind ELSE eidentifier)

\* ------------------------------ claims on a shared working directory
\* C17: of two builders that run on one working directory, on different
\* segments and with different output files, neither ever reads, overwrites
\* or deletes a file the other wrote.
C17_NoForeignAccess == foreign = {}

====
